---- MODULE Spec2Model ----
(***************************************************************************)
(* Model of tools/compare_tessellation_logs.py: the decoder (_iter_lines), *)
(* the dump parser (parse_log, _parse_polyline_header,                     *)
(* _parse_triangle_line), the geometry metrics, the comparator             *)
(* (compare_polylines) and the sharp-triangle scan                         *)
(* (collect_sharp_triangles).                                              *)
(*                                                                         *)
(* Representation.                                                         *)
(*  - A byte buffer is a sequence of integers 0..255.  A text (str) is a   *)
(*    sequence of Unicode code points.  Literals are written as code       *)
(*    points with the text in a comment.                                   *)
(*  - A float the parser reads from a literal is the record                *)
(*    [sign, num, den]: the sign bit and the magnitude num/den in lowest   *)
(*    terms (den = 0 for infinity and nan).  It names the float nearest    *)
(*    to that ratio.                                                       *)
(*  - The geometry is modelled on a bounded grid.  It reads a coordinate   *)
(*    in fixed point, in units of 1/FloatScale (Coord): the float          *)
(*    [sign, num, den] with den a divisor of FloatScale is                 *)
(*    sign * num * (FloatScale / den), and it is covered when its          *)
(*    magnitude is at most CoordMax units.  Outside that grid Coord, and   *)
(*    every definition that reads a point, a squared length or an angle,   *)
(*    has no value: the model says nothing about such inputs.  On the      *)
(*    grid the coordinate differences, the area and the largest            *)
(*    single-axis difference are computed exactly by the program.  A       *)
(*    tolerance is held in the same units.                                 *)
(*  - math.hypot rounds.  A length is held as its exact square (at most    *)
(*    MaxSideSq).  The comparison of a length with a tolerance compares    *)
(*    the squares, which on the grid is the comparison the program makes   *)
(*    on the rounded length: a tolerance t is a float, hypot is off by     *)
(*    less than one unit in the last place, so a length h <= t rounds to   *)
(*    at most t, and a length h > t has h*h - t*t >= 1/4, which is more    *)
(*    than such a unit away from t.  (For squares of 2^50 and more this    *)
(*    fails: hypot(33554432.0, 0.5) is 33554432.0.)                        *)
(*  - An angle is held as [n, d, r]: the cosine n/sqrt(d) of the exact     *)
(*    angle, and the side r on which the computed float lies from it       *)
(*    (-1 below, 0 equal, 1 above).  hypot, the products, the division     *)
(*    and acos round, so r is an outcome of the platform's arithmetic:     *)
(*    it is drawn from the outcomes that arithmetic can produce            *)
(*    (AngleRoundings) and is fixed per triangle for a run.  It is         *)
(*    carried for the angles that a threshold of 0, 30, 45 or 60 degrees   *)
(*    can equal.  For every other angle on the grid the exact cosine       *)
(*    differs from that of each threshold by 1/(8 * d) or more, d at most  *)
(*    4 * MaxSideSq^2, far more than the rounding error, so the            *)
(*    comparison of the computed angle is that of the exact one and r is   *)
(*    0.  (Beyond the grid this fails too: a needle such as (0,0),         *)
(*    (3834.5,0.5), (3835,0.5) computes an angle of exactly 0.0.)          *)
(***************************************************************************)
EXTENDS Integers, Sequences, FiniteSets, TLC

\* ---------------------------------------------------------------- bounds
MaxLines == 3        \* lines per generated dump
MaxChunks == 4       \* vertex chunks per generated triangle line
MaxTris == 2         \* triangles per record handed to the comparator
MaxPolys == 2        \* records handed to the sharp-triangle scan

\* ------------------------------------------------------- text primitives
FloatScale == 2

Min2(a, b) == IF a <= b THEN a ELSE b
Max2(a, b) == IF a >= b THEN a ELSE b
Abs(a) == IF a < 0 THEN 0 - a ELSE a

\* str.isspace() of one code point (the characters str.strip/split remove)
IsSpace(c) ==
    \/ c \in 9..13
    \/ c \in 28..32
    \/ c \in {133, 160, 5760, 8232, 8233, 8239, 8287, 12288}
    \/ c \in 8192..8202

\* the line boundaries of str.splitlines()
IsLineBreak(c) ==
    \/ c \in 10..13
    \/ c \in 28..30
    \/ c \in {133, 8232, 8233}

\* the decimal digits int() and float() read: the Unicode decimal digits
\* (category Nd) come in runs of ten code points, one run per script, each
\* run holding the digits 0..9 in order; DigitBases is the first code
\* point of every run ("0" is 48, ARABIC-INDIC DIGIT ZERO is 1632, ...)
DigitBases ==
    {
     48, 1632, 1776, 1984, 2406, 2534, 2662, 2790,
     2918, 3046, 3174, 3302, 3430, 3558, 3664, 3792,
     3872, 4160, 4240, 6112, 6160, 6470, 6608, 6784,
     6800, 6992, 7088, 7232, 7248, 42528, 43216, 43264,
     43472, 43504, 43600, 44016, 65296, 66720, 68912, 69734,
     69872, 69942, 70096, 70384, 70736, 70864, 71248, 71360,
     71472, 71904, 72016, 72784, 73040, 73120, 92768, 92864,
     93008, 120782, 120792, 120802, 120812, 120822, 123200, 123632,
     125264, 130032}

IsDigit(c) == \E b \in DigitBases : c \in b..(b + 9)
DigitOf(c) == c - (CHOOSE b \in DigitBases : c \in b..(b + 9))

RECURSIVE LStripFrom(_, _)
LStripFrom(s, i) ==
    IF i > Len(s) THEN Len(s) + 1
    ELSE IF IsSpace(s[i]) THEN LStripFrom(s, i + 1) ELSE i

RECURSIVE RStripFrom(_, _)
RStripFrom(s, j) ==
    IF j < 1 THEN 0
    ELSE IF IsSpace(s[j]) THEN RStripFrom(s, j - 1) ELSE j

\* str.strip()
Strip(s) ==
    LET i == LStripFrom(s, 1)
        j == RStripFrom(s, Len(s))
    IN  IF i > j THEN <<>> ELSE SubSeq(s, i, j)

\* str.startswith / str.endswith
StartsWith(s, p) == Len(s) >= Len(p) /\ SubSeq(s, 1, Len(p)) = p
EndsWith(s, p) ==
    Len(s) >= Len(p) /\ SubSeq(s, Len(s) - Len(p) + 1, Len(s)) = p

\* str.find(p, from): position of the first occurrence at or after from, 0 if none
RECURSIVE Find(_, _, _)
Find(s, p, from) ==
    IF from + Len(p) - 1 > Len(s) THEN 0
    ELSE IF SubSeq(s, from, from + Len(p) - 1) = p THEN from
    ELSE Find(s, p, from + 1)

\* str.split(sep): every separator splits, empty pieces are kept
RECURSIVE SplitOn(_, _)
SplitOn(s, sep) ==
    LET k == Find(s, sep, 1)
    IN  IF k = 0 THEN <<s>>
        ELSE <<SubSeq(s, 1, k - 1)>> \o
             SplitOn(SubSeq(s, k + Len(sep), Len(s)), sep)

\* str.split(sep, 1): at most one split
SplitOnce(s, sep) ==
    LET k == Find(s, sep, 1)
    IN  IF k = 0 THEN <<s>>
        ELSE <<SubSeq(s, 1, k - 1), SubSeq(s, k + Len(sep), Len(s))>>

\* str.split() with no separator: runs of whitespace split, no empty pieces
RECURSIVE TokenEnd(_, _)
TokenEnd(s, i) ==
    IF i > Len(s) THEN Len(s)
    ELSE IF IsSpace(s[i]) THEN i - 1 ELSE TokenEnd(s, i + 1)

RECURSIVE SplitWS(_)
SplitWS(s) ==
    LET i == LStripFrom(s, 1)
    IN  IF i > Len(s) THEN <<>>
        ELSE LET j == TokenEnd(s, i)
             IN  <<SubSeq(s, i, j)>> \o SplitWS(SubSeq(s, j + 1, Len(s)))

\* ---- int() and float() of a str
\* Both first rewrite the text to ASCII: a character below 127 is kept, any
\* other whitespace becomes a space, any other decimal digit its ASCII
\* digit, and anything else "?" (which no literal contains).
ToAscii(c) ==
    IF c < 127 THEN c
    ELSE IF IsSpace(c) THEN 32
    ELSE IF IsDigit(c) THEN 48 + DigitOf(c)
    ELSE 63

NumAscii(s) == [i \in 1..Len(s) |-> ToAscii(s[i])]

\* the whitespace skipped around the rewritten literal (tab, line feed,
\* vertical tab, form feed, carriage return, space: not 28..31)
IsNumSpace(c) == c \in 9..13 \/ c = 32

NumStrip(a) ==
    LET keep == {i \in 1..Len(a) : ~IsNumSpace(a[i])}
    IN  IF keep = {} THEN <<>>
        ELSE SubSeq(a, CHOOSE i \in keep : \A j \in keep : i <= j,
                       CHOOSE i \in keep : \A j \in keep : j <= i)

IsAsciiDigit(c) == c \in 48..57

\* a digit-group underscore stands between two digits
UnderscoresOK(a) ==
    \A i \in 1..Len(a) :
        a[i] = 95 => /\ i > 1 /\ IsAsciiDigit(a[i - 1])
                     /\ i < Len(a) /\ IsAsciiDigit(a[i + 1])

DropUnderscores(a) == SelectSeq(a, LAMBDA c : c # 95)

RECURSIVE DigitsValue(_, _)
DigitsValue(s, acc) ==
    IF s = <<>> THEN acc
    ELSE DigitsValue(Tail(s), 10 * acc + (Head(s) - 48))

AllDigits(s) == \A i \in 1..Len(s) : IsAsciiDigit(s[i])

RECURSIVE Pow10(_)
Pow10(n) == IF n = 0 THEN 1 ELSE 10 * Pow10(n - 1)

RECURSIVE Gcd(_, _)
Gcd(a, b) == IF b = 0 THEN a ELSE Gcd(b, a % b)

Bad == [ok |-> FALSE]
Good(v) == [ok |-> TRUE, val |-> v]

\* the sign of a numeric literal: <<sign, rest>>
SignOf(t) ==
    IF t # <<>> /\ Head(t) = 45 THEN <<0 - 1, Tail(t)>>
    ELSE IF t # <<>> /\ Head(t) = 43 THEN <<1, Tail(t)>>
    ELSE <<1, t>>

\* the most digits int() converts (the interpreter's default limit on
\* integer string conversion, which the tool leaves as it is)
MaxStrDigits == 4300

\* int(s): surrounding whitespace, an optional sign, decimal digits with
\* single underscores between them; the digits are counted without the
\* sign, the whitespace and the underscores, leading zeros included, and
\* a literal of more than MaxStrDigits digits is a ValueError
IntOfDigits(sign, ds) ==
    IF ds # <<>> /\ AllDigits(ds) /\ Len(ds) <= MaxStrDigits
    THEN Good(sign * DigitsValue(ds, 0))
    ELSE Bad

IntOfSigned(sg) ==
    IF UnderscoresOK(sg[2]) THEN IntOfDigits(sg[1], DropUnderscores(sg[2]))
    ELSE Bad

ParseInt(s) == IntOfSigned(SignOf(NumStrip(NumAscii(s))))

\* ---- the float a literal denotes
\* [sign, num, den]: sign is 1 or -1 (the sign bit), the magnitude is the
\* ratio num/den in lowest terms; den = 0 marks the special values,
\* num = 1 for infinity and num = 0 for nan.
Float(sign, num, den) == [sign |-> sign, num |-> num, den |-> den]
FloatInf(sign) == Float(sign, 1, 0)
FloatNan(sign) == Float(sign, 0, 0)
FloatZero(sign) == Float(sign, 0, 1)

Lower(a) ==
    [i \in 1..Len(a) |-> IF a[i] \in 65..90 THEN a[i] + 32 ELSE a[i]]

TextInf == <<105,110,102>>  \* "inf"
TextInfinity == <<105,110,102,105,110,105,116,121>>  \* "infinity"
TextNan == <<110,97,110>>  \* "nan"

\* digits without the zeros at one end
DropLeadingZeros(ds) ==
    LET nz == {i \in 1..Len(ds) : ds[i] # 48}
    IN  IF nz = {} THEN <<>>
        ELSE SubSeq(ds, CHOOSE i \in nz : \A j \in nz : i <= j, Len(ds))

DropTrailingZeros(ds) ==
    LET nz == {i \in 1..Len(ds) : ds[i] # 48}
    IN  IF nz = {} THEN <<>>
        ELSE SubSeq(ds, 1, CHOOSE i \in nz : \A j \in nz : j <= i)

\* the float nearest to sign * (digits sig) * 10^e10, sig without leading
\* zeros; a magnitude of 1e309 or more is infinity, one below 1e-324 zero
DecimalRatio(sign, m, p) == Float(sign, m \div Gcd(m, p), p \div Gcd(m, p))

DecimalValue(sign, sig, e10) ==
    IF sig = <<>> THEN FloatZero(sign)
    ELSE IF e10 + Len(sig) - 1 >= 309 THEN FloatInf(sign)
    ELSE IF e10 + Len(sig) <= 0 - 324 THEN FloatZero(sign)
    ELSE IF e10 >= 0 THEN Float(sign, DigitsValue(sig, 0) * Pow10(e10), 1)
    ELSE DecimalRatio(sign, DigitsValue(sig, 0), Pow10(0 - e10))

\* position of the exponent marker "e" or "E", 0 if none
ExpMark(t) ==
    LET es == {i \in 1..Len(t) : t[i] \in {69, 101}}
    IN  IF es = {} THEN 0 ELSE CHOOSE i \in es : \A j \in es : i <= j

\* float(s): surrounding whitespace, an optional sign, then "inf",
\* "infinity" or "nan" in any case, or digits with an optional fraction
\* ("1", "1.", ".5") and an optional exponent ("e3", "E-3"); single
\* underscores between digits.
\* the integer digits ip, the fraction digits fp and the exponent ex
FloatOfFields(sign, ip, fp, ex) ==
    IF /\ AllDigits(ip) /\ AllDigits(fp) /\ Len(ip) + Len(fp) > 0
       /\ ex[2] # <<>> /\ AllDigits(ex[2])
    THEN Good(DecimalValue(sign,
                  DropLeadingZeros(ip \o DropTrailingZeros(fp)),
                  ex[1] * DigitsValue(ex[2], 0) - Len(DropTrailingZeros(fp))))
    ELSE Bad

\* the mantissa split at its point, and the signed exponent
FloatOfParts(sign, pr, ex) ==
    IF Len(pr) = 2 THEN FloatOfFields(sign, pr[1], pr[2], ex)
    ELSE FloatOfFields(sign, pr[1], <<>>, ex)

\* the unsigned literal and the position k of its exponent marker
FloatOfDecimal(sign, body, k) ==
    IF k = 0 THEN FloatOfParts(sign, SplitOnce(body, <<46>>), <<1, <<48>>>>)
    ELSE FloatOfParts(sign, SplitOnce(SubSeq(body, 1, k - 1), <<46>>),
                      SignOf(SubSeq(body, k + 1, Len(body))))

FloatOfBody(sign, body, low) ==
    IF low \in {TextInf, TextInfinity} THEN Good(FloatInf(sign))
    ELSE IF low = TextNan THEN Good(FloatNan(sign))
    ELSE FloatOfDecimal(sign, body, ExpMark(body))

FloatOfSigned(sg) == FloatOfBody(sg[1], sg[2], Lower(sg[2]))

FloatOfAscii(a) ==
    IF UnderscoresOK(a) THEN FloatOfSigned(SignOf(DropUnderscores(a)))
    ELSE Bad

ParseFloat(s) == FloatOfAscii(NumStrip(NumAscii(s)))

\* p occurs in s
IsSubstring(p, s) == Find(s, p, 1) # 0


\* ------------------------------------------------------------- decoder
DecodeFail == [ok |-> FALSE, text |-> <<>>]
Decoded(t) == [ok |-> TRUE, text |-> t]

IsCont(b, i) == i <= Len(b) /\ b[i] \in 128..191

\* the first position at or after i of a byte that starts a multi-byte
\* character (or is invalid), Len(b) + 1 if there is none
FirstNonAscii(b, i) ==
    IF \E k \in i..Len(b) : b[k] >= 128
    THEN CHOOSE k \in i..Len(b) : b[k] >= 128 /\ \A j \in i..(k - 1) : b[j] < 128
    ELSE Len(b) + 1

\* bytes.decode("utf-8"), strict.  A run of one-byte characters is taken at
\* once; a multi-byte character is checked for its continuation bytes, for
\* overlong forms and for surrogates
RECURSIVE DecodeUtf8From(_, _, _)
DecodeUtf8From(b, i, acc) ==
    IF i > Len(b) THEN Decoded(acc)
    ELSE LET c == b[i]
             j == FirstNonAscii(b, i)
         IN
      IF c < 128 THEN DecodeUtf8From(b, j, acc \o SubSeq(b, i, j - 1))
      ELSE IF c \in 194..223 THEN
        IF IsCont(b, i + 1)
        THEN DecodeUtf8From(b, i + 2,
                 Append(acc, (c - 192) * 64 + (b[i + 1] - 128)))
        ELSE DecodeFail
      ELSE IF c \in 224..239 THEN
        IF /\ IsCont(b, i + 1) /\ IsCont(b, i + 2)
           /\ (c = 224 => b[i + 1] >= 160)
           /\ (c = 237 => b[i + 1] <= 159)
        THEN DecodeUtf8From(b, i + 3,
                 Append(acc, (c - 224) * 4096 + (b[i + 1] - 128) * 64
                              + (b[i + 2] - 128)))
        ELSE DecodeFail
      ELSE IF c \in 240..244 THEN
        IF /\ IsCont(b, i + 1) /\ IsCont(b, i + 2) /\ IsCont(b, i + 3)
           /\ (c = 240 => b[i + 1] >= 144)
           /\ (c = 244 => b[i + 1] <= 143)
        THEN DecodeUtf8From(b, i + 4,
                 Append(acc, (c - 240) * 262144 + (b[i + 1] - 128) * 4096
                              + (b[i + 2] - 128) * 64 + (b[i + 3] - 128)))
        ELSE DecodeFail
      ELSE DecodeFail

Utf8Bom == <<239, 187, 191>>

DecodeUtf8(b) == DecodeUtf8From(b, 1, <<>>)

\* bytes.decode("utf-8-sig"): a leading byte-order mark is dropped
DecodeUtf8Sig(b) ==
    IF StartsWith(b, Utf8Bom) THEN DecodeUtf8From(b, 4, <<>>)
    ELSE DecodeUtf8(b)

IsSurrogate(u) == u \in 55296..57343

\* the first position at or after k of a surrogate code unit
FirstSurrogate(u, k) ==
    IF \E x \in k..Len(u) : IsSurrogate(u[x])
    THEN CHOOSE x \in k..Len(u) :
             IsSurrogate(u[x]) /\ \A j \in k..(x - 1) : ~IsSurrogate(u[j])
    ELSE Len(u) + 1

\* the code points of a sequence of 16-bit code units from unit k.  A run of
\* units outside the surrogate range is taken at once; a lone low surrogate
\* and a high surrogate without its low surrogate are errors
RECURSIVE DecodeUnits(_, _, _)
DecodeUnits(u, k, acc) ==
    IF k > Len(u) THEN Decoded(acc)
    ELSE LET j == FirstSurrogate(u, k) IN
      IF j > k THEN DecodeUnits(u, j, acc \o SubSeq(u, k, j - 1))
      ELSE IF u[k] \in 55296..56319 THEN
        IF k + 1 <= Len(u) /\ u[k + 1] \in 56320..57343
        THEN DecodeUnits(u, k + 2,
                 Append(acc, 65536 + (u[k] - 55296) * 1024 + (u[k + 1] - 56320)))
        ELSE DecodeFail
      ELSE DecodeFail

\* the bytes from position i as 16-bit units; a trailing odd byte is an error
DecodeUtf16From(b, i, little, acc) ==
    LET n == Len(b) - i + 1
        units == [k \in 1..(n \div 2) |->
                    IF little THEN b[i + 2 * k - 2] + 256 * b[i + 2 * k - 1]
                    ELSE 256 * b[i + 2 * k - 2] + b[i + 2 * k - 1]]
    IN  IF n % 2 = 1 THEN DecodeFail ELSE DecodeUnits(units, 1, acc)

\* bytes.decode("utf-16"): the byte-order mark selects the byte order and is
\* dropped; without one the native order is used (little-endian hosts)
DecodeUtf16(b) ==
    IF StartsWith(b, <<255, 254>>) THEN DecodeUtf16From(b, 3, TRUE, <<>>)
    ELSE IF StartsWith(b, <<254, 255>>) THEN DecodeUtf16From(b, 3, FALSE, <<>>)
    ELSE DecodeUtf16From(b, 1, TRUE, <<>>)

\* bytes.decode("utf-16-le"): no byte-order mark handling
DecodeUtf16LE(b) == DecodeUtf16From(b, 1, TRUE, <<>>)

Decode(b, encoding) ==
    CASE encoding = "utf-8" -> DecodeUtf8(b)
      [] encoding = "utf-8-sig" -> DecodeUtf8Sig(b)
      [] encoding = "utf-16" -> DecodeUtf16(b)
      [] encoding = "utf-16-le" -> DecodeUtf16LE(b)

\* str.splitlines(): terminators dropped, "\r\n" is one terminator, no
\* empty last line after a final terminator
\* the first position at or after i of a line boundary
FirstLineBreak(t, i) ==
    IF \E k \in i..Len(t) : IsLineBreak(t[k])
    THEN CHOOSE k \in i..Len(t) :
             IsLineBreak(t[k]) /\ \A j \in i..(k - 1) : ~IsLineBreak(t[j])
    ELSE Len(t) + 1

RECURSIVE SplitLinesFrom(_, _, _)
SplitLinesFrom(t, start, acc) ==
    LET i == FirstLineBreak(t, start) IN
    IF i > Len(t)
    THEN IF start <= Len(t) THEN Append(acc, SubSeq(t, start, Len(t))) ELSE acc
    ELSE LET n == IF t[i] = 13 /\ i < Len(t) /\ t[i + 1] = 10
                  THEN i + 2 ELSE i + 1
         IN  SplitLinesFrom(t, n, Append(acc, SubSeq(t, start, i - 1)))

SplitLines(t) == SplitLinesFrom(t, 1, <<>>)

EncodingsSwapped == <<"utf-8", "utf-8-sig", "utf-16-le", "utf-16">>

\* the candidate encodings, in the order they are tried
Encodings == <<"utf-8", "utf-8-sig", "utf-16", "utf-16-le">>

\* the for/else of _iter_lines: the first encoding that decodes the buffer
RECURSIVE TryDecode(_, _)
TryDecode(b, k) ==
    IF k > Len(Encodings) THEN [ok |-> FALSE, encoding |-> "none", text |-> <<>>]
    ELSE LET d == Decode(b, Encodings[k])
         IN  IF d.ok
             THEN [ok |-> TRUE, encoding |-> Encodings[k], text |-> d.text]
             ELSE TryDecode(b, k + 1)

MsgDecode1 == <<85,110,97,98,108,101,32,116,111,32,100,101,99,111,100,101,32>>  \* "Unable to decode "
MsgDecode2 == <<32,97,115,32,85,84,70,45,56,47,85,84,70,45,49,54>>  \* " as UTF-8/UTF-16"

NoError == [kind |-> "none", msg |-> <<>>]
ParseError(m) == [kind |-> "ParseError", msg |-> m]

\* _iter_lines(path): the decoded lines, or the error raised
IterLines(b, p) ==
    LET d == TryDecode(b, 1)
    IN  IF d.ok
        THEN [ok |-> TRUE, encoding |-> d.encoding,
              lines |-> SplitLines(d.text), err |-> NoError]
        ELSE [ok |-> FALSE, encoding |-> "none", lines |-> <<>>,
              err |-> ParseError(MsgDecode1 \o p \o MsgDecode2)]

\* --------------------------------------------------------- line parsers
POLYLINE_PREFIX == <<80,111,108,121,108,105,110,101,58>>  \* "Polyline:"
TRIANGLE_PREFIX == <<84,114,105,97,110,103,108,101>>  \* "Triangle"

MsgHeader == <<85,110,97,98,108,101,32,116,111,32,112,97,114,115,101,32,112,111,108,121,108,105,110,101,32,104,101,97,100,101,114,58,32,39>>  \* "Unable to parse polyline header: '"
MsgTriangle == <<85,110,97,98,108,101,32,116,111,32,112,97,114,115,101,32,116,114,105,97,110,103,108,101,32,108,105,110,101,58,32,39>>  \* "Unable to parse triangle line: '"
MsgNoHeader == <<84,114,105,97,110,103,108,101,32,108,105,110,101,32,101,110,99,111,117,110,116,101,114,101,100,32,98,101,102,111,114,101,32,112,111,108,121,108,105,110,101,32,104,101,97,100,101,114,32,105,110,32>>  \* "Triangle line encountered before polyline header in "
Quote == <<39>>  \* "'"

Raised(e) == [ok |-> FALSE, err |-> e]
Returned(v) == [ok |-> TRUE, val |-> v]

PolylineDump(i, pc, w, l, ts) ==
    [index |-> i, point_count |-> pc, width |-> w, layer |-> l, triangles |-> ts]

\* raise ParseError(f"Unable to parse polyline header: '{line}'")
HeaderFailure(line) == Raised(ParseError(MsgHeader \o line \o Quote))

\* _parse_polyline_header(line, index)
ParsePolylineHeader(line, index) ==
    LET head == Strip(SubSeq(line, Len(POLYLINE_PREFIX) + 1, Len(line)))
        split == SplitOn(head, <<44>>)
        parts == [k \in 1..Len(split) |-> Strip(split[k])]
        fail == HeaderFailure(line)
    IN  IF Len(parts) # 3 THEN fail
        ELSE LET ptoks == SplitWS(parts[1])
                 wsplit == SplitOnce(parts[2], <<58>>)
                 lsplit == SplitOnce(parts[3], <<58>>)
             IN  IF ptoks = <<>> \/ Len(wsplit) < 2 \/ Len(lsplit) < 2 THEN fail
                 ELSE LET pc == ParseInt(ptoks[1])
                          w == ParseFloat(wsplit[2])
                      IN  IF ~pc.ok \/ ~w.ok THEN fail
                          ELSE Returned(PolylineDump(index, pc.val, w.val,
                                                     Strip(lsplit[2]), <<>>))

\* one vertex chunk of a triangle line: brackets dropped, "x, y" parsed
ParseVertex(chunk0) ==
    LET c1 == Strip(chunk0)
        c2 == IF EndsWith(c1, <<93>>) THEN SubSeq(c1, 1, Len(c1) - 1) ELSE c1
        c3 == IF StartsWith(c2, <<91>>) THEN SubSeq(c2, 2, Len(c2)) ELSE c2
        xy == SplitOnce(c3, <<44>>)
    IN  IF Len(xy) # 2 THEN Bad
        ELSE LET x == ParseFloat(Strip(xy[1]))
                 y == ParseFloat(Strip(xy[2]))
             IN  IF x.ok /\ y.ok THEN Good(<<x.val, y.val>>) ELSE Bad

TriangleFailureNoText(line) == Raised(ParseError(MsgTriangle \o Quote))

\* raise ParseError(f"Unable to parse triangle line: '{line}'")
TriangleFailure(line) == Raised(ParseError(MsgTriangle \o line \o Quote))

ParseTriangleLineTruncates(line) ==
    LET lp == SplitOnce(line, <<58>>)
        fail == TriangleFailure(line)
    IN  IF Len(lp) # 2 THEN fail
        ELSE LET triples == SplitOn(Strip(lp[2]), <<93, 44>>)
                 vs == [k \in 1..Len(triples) |-> ParseVertex(triples[k])]
             IN  IF \E k \in 1..Len(vs) : ~vs[k].ok THEN fail
                 ELSE IF Len(vs) < 3 THEN fail
                 ELSE Returned(<<vs[1].val, vs[2].val, vs[3].val>>)

\* _parse_triangle_line(line)
ParseTriangleLine(line) ==
    LET lp == SplitOnce(line, <<58>>)
        fail == TriangleFailure(line)
    IN  IF Len(lp) # 2 THEN fail
        ELSE LET triples == SplitOn(Strip(lp[2]), <<93, 44>>)
                 vs == [k \in 1..Len(triples) |-> ParseVertex(triples[k])]
             IN  IF \E k \in 1..Len(vs) : ~vs[k].ok THEN fail
                 ELSE IF Len(vs) # 3 THEN fail
                 ELSE Returned(<<vs[1].val, vs[2].val, vs[3].val>>)


\* ------------------------------------------------------------ parse_log
VARIABLES
    path,        \* the source identifier handed to parse_log
    raw,         \* the bytes path.read_bytes() returns
    pc,          \* "decode", "loop", "done" (returned) or "raised"
    encoding,    \* the encoding _iter_lines accepted, "none" before/without
    lines,       \* the lines _iter_lines returned
    pos,         \* 1-based position of the line the for loop is at
    polylines,   \* parse_log's list of closed records
    current,     \* <<>> for None, <<record>> for the open record
    err,         \* the exception raised, NoError while none
    result,      \* <<>> while nothing is returned, <<list>> once returned
    \* one call of _parse_triangle_line
    tl_head,     \* the text before the vertex chunks of the line
    tl_chunks,   \* the vertex chunks the line is written from
    tl_out,      \* <<>> before the call, <<outcome>> after it
    \* one call of compare_polylines
    reference, candidate, tolerance,
    max_triangles,  \* <<>> for None, <<n>> for a cap
    idx,         \* the loop index (0-based, as in the source)
    diffs,       \* the list of TriangleDiff
    cpc,         \* "idle", "loop" or "done"
    cmp_rounding,  \* triangle -> r: how triangle_metrics rounds its angle
    \* one call of collect_sharp_triangles
    sh_polylines, angle_threshold,
    sh_p,        \* 1-based position of the record the outer loop is at
    sh_rounding,   \* triangle -> r: how triangle_metrics rounds its angle
    sh_t,        \* 0-based idx of enumerate(poly.triangles)
    results,     \* the list of (poly.index, idx, metrics)
    spc          \* "idle", "loop" or "done"

pvars == <<path, raw, pc, encoding, lines, pos, polylines, current, err, result>>
tvars == <<tl_head, tl_chunks, tl_out>>
cvars == <<reference, candidate, tolerance, max_triangles, idx, diffs, cpc,
           cmp_rounding>>
svars == <<sh_polylines, angle_threshold, sh_p, sh_t, results, spc,
           sh_rounding>>
vars == <<pvars, tvars, cvars, svars>>

FinishCurrentDrops(polys, cur) == polys

\* finish_current(): the open record, if any, is appended
FinishCurrent(polys, cur) ==
    IF cur # <<>> THEN polys \o cur ELSE polys

OnHeaderSkipsBad(line, polys, cur) ==
    LET closed == FinishCurrent(polys, cur)
        h == ParsePolylineHeader(line, Len(closed))
    IN  IF h.ok
        THEN [polylines |-> closed, current |-> <<h.val>>, err |-> NoError]
        ELSE [polylines |-> closed, current |-> <<>>, err |-> NoError]

\* the header branch of the loop body: the new lists, the new open record
\* and the exception, if one is raised
OnHeader(line, polys, cur) ==
    LET closed == FinishCurrent(polys, cur)
        h == ParsePolylineHeader(line, Len(closed))
    IN  IF h.ok
        THEN [polylines |-> closed, current |-> <<h.val>>, err |-> NoError]
        ELSE [polylines |-> closed, current |-> <<>>, err |-> h.err]

OnTriangleLenient(line, polys, cur, p) ==
    IF cur = <<>>
    THEN [polylines |-> polys, current |-> cur, err |-> NoError]
    ELSE LET t == ParseTriangleLine(line)
         IN  IF t.ok
             THEN [polylines |-> polys,
                   current |-> <<[cur[1] EXCEPT !.triangles = Append(@, t.val)]>>,
                   err |-> NoError]
             ELSE [polylines |-> polys, current |-> cur, err |-> t.err]

OnTrianglePrepends(line, polys, cur, p) ==
    IF cur = <<>>
    THEN [polylines |-> polys, current |-> cur,
          err |-> ParseError(MsgNoHeader \o p)]
    ELSE LET t == ParseTriangleLine(line)
         IN  IF t.ok
             THEN [polylines |-> polys,
                   current |-> <<[cur[1] EXCEPT !.triangles = <<t.val>> \o @]>>,
                   err |-> NoError]
             ELSE [polylines |-> polys, current |-> cur, err |-> t.err]

\* the triangle branch of the loop body
OnTriangle(line, polys, cur, p) ==
    IF cur = <<>>
    THEN [polylines |-> polys, current |-> cur,
          err |-> ParseError(MsgNoHeader \o p)]
    ELSE LET t == ParseTriangleLine(line)
         IN  IF t.ok
             THEN [polylines |-> polys,
                   current |-> <<[cur[1] EXCEPT !.triangles = Append(@, t.val)]>>,
                   err |-> NoError]
             ELSE [polylines |-> polys, current |-> cur, err |-> t.err]

CurLine == Strip(lines[pos])
InLoop == pc = "loop" /\ pos <= Len(lines)

\* for raw_line in _iter_lines(path): the call that decodes the file
ReadLines ==
    /\ pc = "decode"
    /\ LET r == IterLines(raw, path)
       IN  /\ encoding' = r.encoding
           /\ lines' = r.lines
           /\ err' = r.err
           /\ pc' = IF r.ok THEN "loop" ELSE "raised"
    /\ UNCHANGED <<path, raw, pos, polylines, current, result, tvars, cvars, svars>>

\* if not line: continue
BlankLine ==
    /\ InLoop
    /\ CurLine = <<>>
    /\ pos' = pos + 1
    /\ UNCHANGED <<path, raw, pc, encoding, lines, polylines, current, err, result, tvars, cvars, svars>>

Apply(o) ==
    /\ polylines' = o.polylines
    /\ current' = o.current
    /\ err' = o.err
    /\ IF o.err = NoError
       THEN pc' = pc /\ pos' = pos + 1
       ELSE pc' = "raised" /\ pos' = pos
    /\ UNCHANGED <<path, raw, encoding, lines, result, tvars, cvars, svars>>

\* if line.startswith(POLYLINE_PREFIX)
HeaderLine ==
    /\ InLoop
    /\ CurLine # <<>>
    /\ StartsWith(CurLine, POLYLINE_PREFIX)
    /\ Apply(OnHeader(CurLine, polylines, current))

\* if line.startswith(TRIANGLE_PREFIX)
TriangleLine ==
    /\ InLoop
    /\ CurLine # <<>>
    /\ ~StartsWith(CurLine, POLYLINE_PREFIX)
    /\ StartsWith(CurLine, TRIANGLE_PREFIX)
    /\ Apply(OnTriangle(CurLine, polylines, current, path))

\* any other line falls through the loop body
IgnoredLine ==
    /\ InLoop
    /\ CurLine # <<>>
    /\ ~StartsWith(CurLine, POLYLINE_PREFIX)
    /\ ~StartsWith(CurLine, TRIANGLE_PREFIX)
    /\ pos' = pos + 1
    /\ UNCHANGED <<path, raw, pc, encoding, lines, polylines, current, err, result, tvars, cvars, svars>>

\* the loop is exhausted: finish_current(); return polylines
EndOfInput ==
    /\ pc = "loop"
    /\ pos > Len(lines)
    /\ polylines' = FinishCurrent(polylines, current)
    /\ current' = <<>>
    /\ result' = <<polylines'>>
    /\ pc' = "done"
    /\ UNCHANGED <<path, raw, encoding, lines, pos, err, tvars, cvars, svars>>

\* ---- the dumps parse_log is run on
PathRef == <<114,101,102,46,116,120,116>>  \* "ref.txt"

LineH1 == <<80,111,108,121,108,105,110,101,58,32,51,32,112,111,105,110,116,115,44,32,119,105,100,116,104,58,32,48,46,53,44,32,108,97,121,101,114,58,32,76,65,89,69,82,58,67,117,116>>  \* "Polyline: 3 points, width: 0.5, layer: LAYER:Cut"
LineH2 == <<32,32,80,111,108,121,108,105,110,101,58,32,1633,1632,32,112,44,32,119,105,100,116,104,58,32,50,46,53,101,45,49,44,32,108,97,121,101,114,58,32,66,9>>  \* "  Polyline: <U+0661><U+0660> p, width: 2.5e-1, layer: B\t  (count in ARABIC-INDIC digits)"
LineHBadNum == <<32,80,111,108,121,108,105,110,101,58,32,120,32,112,44,32,119,105,100,116,104,58,32,49,44,32,108,97,121,101,114,58,32,66>>  \* " Polyline: x p, width: 1, layer: B"
LineT1 == <<84,114,105,97,110,103,108,101,32,48,58,32,91,48,44,32,48,93,44,32,91,49,44,32,48,93,44,32,91,48,44,32,49,93>>  \* "Triangle 0: [0, 0], [1, 0], [0, 1]"
LineT2 == <<32,84,114,105,97,110,103,108,101,32,49,58,32,91,48,46,53,44,32,45,48,93,44,32,91,50,101,49,44,32,45,49,95,48,93,44,32,91,110,97,110,44,32,105,110,102,93,32>>  \* " Triangle 1: [0.5, -0], [2e1, -1_0], [nan, inf] "
LineTBare == <<32,84,114,105,97,110,103,108,101>>  \* " Triangle" (the marker alone: no colon, no vertices)
LineSpaces == <<32,9,32>>  \* " \t "
LineBanner == <<61,61,61,32,76,97,121,101,114,32,61,61,61>>  \* "=== Layer ==="

LinePool ==
    {LineH1, LineH2, LineHBadNum, LineT1, LineT2, LineTBare, LineSpaces,
     LineBanner}

Docs == UNION {[1..n -> LinePool] : n \in 0..MaxLines}

RECURSIVE JoinLines(_, _)
JoinLines(d, term) ==
    IF d = <<>> THEN <<>> ELSE Head(d) \o term \o JoinLines(Tail(d), term)

\* UTF-16 little-endian bytes of a text of code points below 65536
Utf16LEBytes(t) ==
    [i \in 1..(2 * Len(t)) |->
        IF i % 2 = 1 THEN t[(i + 1) \div 2] % 256 ELSE t[i \div 2] \div 256]

\* UTF-8 bytes of one code point below 65536 and of a line of them
Utf8Char(c) ==
    IF c < 128 THEN <<c>>
    ELSE IF c < 2048 THEN <<192 + (c \div 64), 128 + (c % 64)>>
    ELSE <<224 + (c \div 4096), 128 + ((c \div 64) % 64), 128 + (c % 64)>>

RECURSIVE Utf8Bytes(_)
Utf8Bytes(t) ==
    IF t = <<>> THEN <<>> ELSE Utf8Char(Head(t)) \o Utf8Bytes(Tail(t))

\* a dump as a writer emits it
Framings == {"utf-8", "utf-8-bom", "utf-16-bom"}
Encode(d, framing) ==
    LET bytes == [k \in 1..Len(d) |-> Utf8Bytes(d[k])]
    IN  CASE framing = "utf-8" -> JoinLines(bytes, <<10>>)
          [] framing = "utf-8-bom" -> Utf8Bom \o JoinLines(bytes, <<10>>)
          [] framing = "utf-16-bom" ->
                <<255, 254>> \o Utf16LEBytes(JoinLines(d, <<13, 10>>))

\* buffers no writer of dumps emits: undecodable ones, and one that only the
\* last candidate encoding accepts
OddBuffers ==
    {<<255>>, <<0, 220>>, <<255, 254, 80>>, <<0, 216, 65, 0>>,
     <<254, 255, 220, 0>>, <<254, 255, 0, 84>>}

RawInputs == {Encode(d, f) : d \in Docs, f \in Framings} \cup OddBuffers

\* the variables of a call that is not being made
IdleParse ==
    /\ path = <<>> /\ raw = <<>> /\ pc = "idle" /\ encoding = "none"
    /\ lines = <<>> /\ pos = 1 /\ polylines = <<>> /\ current = <<>>
    /\ err = NoError /\ result = <<>>
IdleTriangleLine == tl_head = <<>> /\ tl_chunks = <<>> /\ tl_out = <<>>
IdleCompare ==
    /\ reference = <<>> /\ candidate = <<>> /\ tolerance = 0
    /\ max_triangles = <<>> /\ idx = 0 /\ diffs = <<>> /\ cpc = "idle"
    /\ cmp_rounding = <<>>
IdleSharp ==
    /\ sh_polylines = <<>> /\ angle_threshold = 0 /\ sh_p = 1 /\ sh_t = 0
    /\ results = <<>> /\ spc = "idle" /\ sh_rounding = <<>>

InitParse ==
    /\ path = PathRef
    /\ raw \in RawInputs
    /\ pc = "decode"
    /\ encoding = "none"
    /\ lines = <<>>
    /\ pos = 1
    /\ polylines = <<>>
    /\ current = <<>>
    /\ err = NoError
    /\ result = <<>>
    /\ IdleTriangleLine /\ IdleCompare /\ IdleSharp

NextParse ==
    \/ ReadLines
    \/ BlankLine
    \/ HeaderLine
    \/ TriangleLine
    \/ IgnoredLine
    \/ EndOfInput

Spec == InitParse /\ [][NextParse]_vars


\* ------------------------------------------------ properties of parse_log
\* a line begins with a marker when it does so after trimming
IsHeaderLine(l) == StartsWith(Strip(l), POLYLINE_PREFIX)
IsTriLine(l) == StartsWith(Strip(l), TRIANGLE_PREFIX)
NoHeaderBefore(i) == \A j \in 1..(i - 1) : ~IsHeaderLine(lines[j])

\* the positions of the header lines among the first n lines
HeaderIdx(n) == {j \in 1..n : IsHeaderLine(lines[j])}
\* the position of the i-th header line
NthHeader(n, i) ==
    CHOOSE j \in HeaderIdx(n) : Cardinality({k \in HeaderIdx(n) : k < j}) = i - 1
\* the records held after n lines were consumed, closed ones first
Consumed == IF pc = "done" THEN Len(lines) ELSE pos - 1
Records == IF pc = "done" THEN result[1] ELSE polylines \o current

\* C1: a triangle line reached while no header line precedes it (only blank
\* and ignored lines do) makes the parse fail with ParseError: the parse
\* never gets past that line, never returns, and the error raised there is
\* the ParseError of parse_log.
C1_TriangleBeforeHeaderFails ==
    \A i \in 1..Len(lines) :
        (IsTriLine(lines[i]) /\ NoHeaderBefore(i)) =>
            /\ result = <<>>
            /\ pc # "done"
            /\ pos <= i
            /\ (pc = "raised" => err.kind = "ParseError")
            /\ (\A j \in 1..(i - 1) : ~IsTriLine(lines[j])) =>
                  /\ (pc = "raised" => pos = i)
                  /\ (pc = "loop" /\ pos = i) =>
                        ~ENABLED (BlankLine \/ HeaderLine \/ IgnoredLine \/ EndOfInput)

C1_Witness ==
    /\ pc = "raised"
    /\ pos > 1
    /\ pos <= Len(lines)
    /\ IsTriLine(lines[pos])
    /\ NoHeaderBefore(pos)

\* C2: after a successful parse of an input with k header lines the result
\* has k records, the i-th record comes from the i-th header line and has
\* index i - 1, and the record of the last header is present; while the
\* parse runs, every header line consumed so far has its record, the last one
\* being the open record.
C2_OneRecordPerHeader ==
    pc \in {"loop", "done"} =>
        LET H == HeaderIdx(Consumed) IN
        /\ Len(Records) = Cardinality(H)
        /\ (pc = "loop" => (current # <<>>) = (H # {}))
        /\ (pc = "done" => current = <<>> /\ polylines = result[1])
        /\ \A i \in 1..Len(Records) :
              LET h == ParsePolylineHeader(Strip(lines[NthHeader(Consumed, i)]), i - 1)
              IN  /\ Records[i].index = i - 1
                  /\ h.ok
                  /\ Records[i].point_count = h.val.point_count
                  /\ Records[i].width = h.val.width
                  /\ Records[i].layer = h.val.layer

C2_Witness ==
    /\ pc = "done"
    /\ Len(result[1]) >= 2
    /\ IsHeaderLine(lines[Len(lines)])
    /\ result[1][Len(result[1])].index = Len(result[1]) - 1

\* the triangles of the triangle lines strictly between positions lo and hi
TrianglesBetween(lo, hi) ==
    LET between == [x \in 1..(hi - lo - 1) |-> lo + x]
        IsTri(j) == IsTriLine(lines[j])
        sel == SelectSeq(between, IsTri)
    IN  [x \in 1..Len(sel) |-> ParseTriangleLine(Strip(lines[sel[x]])).val]

\* C3: the triangles of each record are exactly those of the triangle lines
\* after its header line and before the next header line (or the end of the
\* input consumed), in order of appearance; blank and ignored lines add
\* nothing and close nothing.
C3_TrianglesUnderTheirHeader ==
    pc \in {"loop", "done"} =>
        LET n == Consumed
            k == Cardinality(HeaderIdx(n))
        IN  \A i \in 1..Len(Records) :
               LET lo == NthHeader(n, i)
                   hi == IF i < k THEN NthHeader(n, i + 1) ELSE n + 1
               IN  Records[i].triangles = TrianglesBetween(lo, hi)

C3_Witness ==
    /\ pc = "done"
    /\ \E i \in 1..Len(result[1]) : Len(result[1][i].triangles) >= 1
    /\ \E j \in 2..Len(lines) : ~IsHeaderLine(lines[j]) /\ ~IsTriLine(lines[j])
    /\ IsTriLine(lines[Len(lines)])

\* line i raises ParseError when the parse reaches it
BadLine(i) ==
    \/ IsHeaderLine(lines[i]) /\ ~ParsePolylineHeader(Strip(lines[i]), 0).ok
    \/ IsTriLine(lines[i]) /\ NoHeaderBefore(i)
    \/ IsTriLine(lines[i]) /\ ~ParseTriangleLine(Strip(lines[i])).ok
BadLines == {i \in 1..Len(lines) : BadLine(i)}
FirstBad == CHOOSE i \in BadLines : \A j \in BadLines : i <= j

\* C4: no partial result: when some line of the dump raises ParseError the
\* parse stops at the first such line, takes no further step, and returns
\* nothing, whatever records were closed before.
C4_NoPartialResult ==
    BadLines # {} =>
        /\ result = <<>>
        /\ pc # "done"
        /\ pos <= FirstBad
        /\ (pc = "raised" =>
               /\ pos = FirstBad
               /\ err.kind = "ParseError"
               /\ ~ENABLED NextParse)

C4_Witness ==
    /\ pc = "raised"
    /\ BadLines # {}
    /\ Len(polylines) >= 1
    /\ result = <<>>
    /\ pos < Len(lines)

\* a ParseError raised by the loop of parse_log (not by the decoder)
RaisedInLoop == pc = "raised" /\ encoding # "none"

\* C5 as stated: every ParseError raised while parsing carries the offending
\* raw line text, for each of its three causes.
C5_CarriesRawLine ==
    RaisedInLoop => IsSubstring(lines[pos], err.msg)

\* "Triangle line encountered before polyline header in "
NoHeaderText ==
    <<84,114,105,97,110,103,108,101,32,108,105,110,101,32,101,110,99,111,117,
      110,116,101,114,101,100,32,98,101,102,111,114,101,32,112,111,108,121,
      108,105,110,101,32,104,101,97,100,101,114,32,105,110,32>>

\* C5 as amended: a ParseError for a malformed header line or a malformed
\* triangle line carries that line's text with the surrounding whitespace
\* trimmed; the ParseError for a triangle line met with no open polyline
\* carries the source path in place of the line: its message is a fixed
\* text followed by the path, whatever the line is.
C5_CarriesTrimmedLineOrPath ==
    RaisedInLoop =>
        LET l == Strip(lines[pos]) IN
        IF IsTriLine(lines[pos]) /\ NoHeaderBefore(pos)
        THEN err.msg = NoHeaderText \o path
        ELSE /\ IsHeaderLine(lines[pos]) \/ IsTriLine(lines[pos])
             /\ l # <<>>
             /\ IsSubstring(l, err.msg)

C5_Witness ==
    /\ RaisedInLoop
    /\ IsTriLine(lines[pos])
    /\ ~NoHeaderBefore(pos)
    /\ lines[pos] # Strip(lines[pos])

\* the order of the candidate encodings the decoder is specified to try
SpecifiedOrder == <<"utf-8", "utf-8-sig", "utf-16", "utf-16-le">>
Decodable == {k \in 1..Len(SpecifiedOrder) : Decode(raw, SpecifiedOrder[k]).ok}
FirstDecodable == CHOOSE k \in Decodable : \A j \in Decodable : k <= j

\* the decoder's result is that of the first candidate that decodes the
\* whole buffer, and the decoder fails exactly when no candidate does
FirstSuccessWins(kind) ==
    pc # "decode" =>
        IF Decodable = {}
        THEN /\ pc = "raised"
             /\ encoding = "none"
             /\ err.kind = kind
             /\ IsSubstring(path, err.msg)
        ELSE /\ encoding = SpecifiedOrder[FirstDecodable]
             /\ lines = SplitLines(Decode(raw, encoding).text)
             /\ (pc = "raised" => err.kind = "ParseError" /\ pos <= Len(lines))

\* C7 as stated: the candidates are tried in the order UTF-8, UTF-8 with
\* byte-order mark, UTF-16, UTF-16 little-endian, the first that decodes the
\* buffer gives the lines, and the decoder fails iff none does, with a
\* DecodeError (distinct from ParseError) that carries the source identifier.
C7_DecodeErrorKind == FirstSuccessWins("DecodeError")

\* C7 as amended: the same, but the failure is a ParseError, the error kind
\* the parser also raises, carrying the source path.
C7_FirstSuccessOrParseError == FirstSuccessWins("ParseError")

C7_Witness ==
    /\ pc = "raised"
    /\ Decodable = {}
    /\ raw # <<>>

\* C8: a buffer made of the UTF-8 byte-order mark and valid UTF-8 text is
\* decoded with the byte-order-mark encoding: the first line does not start
\* with the byte-order-mark character, and a well-formed header on the first
\* line opens the first record.
C8_BomBufferNotPlainUtf8 ==
    (/\ pc # "decode"
     /\ StartsWith(raw, Utf8Bom)
     /\ DecodeUtf8From(raw, Len(Utf8Bom) + 1, <<>>).ok) =>
        LET text == SplitLines(DecodeUtf8From(raw, Len(Utf8Bom) + 1, <<>>).text) IN
        /\ encoding = "utf-8-sig"
        /\ lines = text
        /\ (lines # <<>> => ~StartsWith(lines[1], <<65279>>))
        /\ (/\ text # <<>>
            /\ StartsWith(Strip(text[1]), POLYLINE_PREFIX)
            /\ ParsePolylineHeader(Strip(text[1]), 0).ok
            /\ pos > 1) => Records # <<>>


\* ------------------------------------------ _parse_triangle_line, alone
TriHead == <<84,114,105,97,110,103,108,101,32,55,58>>  \* "Triangle 7:"
TriHeadNoColon == <<84,114,105,97,110,103,108,101,32,55>>  \* "Triangle 7"
ChunkA == <<91,48,44,32,48,93>>  \* "[0, 0]"
ChunkB == <<91,49,44,32,48,46,53,93>>  \* "[1, 0.5]"
ChunkC == <<91,45,50,44,32,49,46,48,93>>  \* "[-2, 1.0]"
ChunkBadNum == <<91,120,44,32,48,93>>  \* "[x, 0]"
ChunkNoY == <<91,49,93>>  \* "[1]"

ChunkD == <<91,65299,101,49,44,32,45,46,50,53,93>>  \* "[<U+FF13>e1, -.25]"  (a FULLWIDTH DIGIT THREE)
ChunkE == <<91,78,97,78,44,32,45,73,110,102,105,110,105,116,121,93>>  \* "[NaN, -Infinity]"

ChunkPool == {ChunkA, ChunkB, ChunkC, ChunkD, ChunkE, ChunkBadNum, ChunkNoY}
HeadPool == {TriHead, TriHeadNoColon}

\* the line a writer emits for the chunks: "<head> c1, c2, ..."
RECURSIVE JoinChunks(_)
JoinChunks(cs) ==
    IF cs = <<>> THEN <<>>
    ELSE IF Len(cs) = 1 THEN cs[1]
    ELSE cs[1] \o <<44, 32>> \o JoinChunks(Tail(cs))

TriLineOf(head, cs) == head \o <<32>> \o JoinChunks(cs)

InitTriangleLine ==
    /\ tl_head \in HeadPool
    /\ tl_chunks \in UNION {[1..n -> ChunkPool] : n \in 0..MaxChunks}
    /\ tl_out = <<>>
    /\ IdleParse /\ IdleCompare /\ IdleSharp

\* triangle = _parse_triangle_line(line), on the trimmed line as parse_log
\* hands it over
CallParseTriangleLine ==
    /\ tl_head # <<>>
    /\ tl_out = <<>>
    /\ tl_out' = <<ParseTriangleLine(Strip(TriLineOf(tl_head, tl_chunks)))>>
    /\ UNCHANGED <<tl_head, tl_chunks, pvars, cvars, svars>>

NextTriangleLine == CallParseTriangleLine

SpecTriangleLine == InitTriangleLine /\ [][NextTriangleLine]_vars

\* the chunks of the pool whose two components float() reads, and the
\* vertex each of them denotes
WellFormedChunks == {ChunkA, ChunkB, ChunkC, ChunkD, ChunkE}
ChunkVertex(c) ==
    CASE c = ChunkA -> <<Float(1, 0, 1), Float(1, 0, 1)>>
      [] c = ChunkB -> <<Float(1, 1, 1), Float(1, 1, 2)>>
      [] c = ChunkC -> <<Float(0 - 1, 2, 1), Float(1, 1, 1)>>
      [] c = ChunkD -> <<Float(1, 30, 1), Float(0 - 1, 1, 4)>>
      [] c = ChunkE -> <<FloatNan(1), FloatInf(0 - 1)>>

\* C6: a triangle is returned only for a line with a colon whose payload is
\* exactly three well-formed vertex chunks, and it then has exactly those
\* three vertices; any other number of chunks (0, 1, 2, 4, ...) or a
\* missing component or one that is no float literal is a ParseError
\* carrying no triangle.  (A float literal is what float() reads: decimal
\* digits of any script, exponents, "nan" and "inf" included.)
C6_ExactlyThreeVertices ==
    tl_out # <<>> =>
        LET r == tl_out[1]
            wellFormed ==
                /\ tl_head = TriHead
                /\ Len(tl_chunks) = 3
                /\ \A k \in 1..Len(tl_chunks) : tl_chunks[k] \in WellFormedChunks
        IN  /\ r.ok = wellFormed
            /\ r.ok => /\ Len(r.val) = 3
                       /\ \A k \in 1..3 : r.val[k] = ChunkVertex(tl_chunks[k])
            /\ ~r.ok => /\ r.err.kind = "ParseError"
                        /\ DOMAIN r = {"ok", "err"}

C6_Witness ==
    /\ tl_out # <<>>
    /\ tl_out[1].ok
    /\ Len(tl_chunks) = 3
    /\ tl_chunks[1] # tl_chunks[3]

\* ------------------------------------------------------ geometry metrics
\* the grid the geometry is modelled on: coordinates of magnitude at most
\* CoordMax units of 1/FloatScale, squared distances of at most MaxSideSq
CoordMax == 4
MaxSideSq == 8 * CoordMax * CoordMax

\* the coordinate a float denotes, in units of 1/FloatScale; only a finite
\* float on the grid has one
Coord(f) ==
    CHOOSE u \in {f.sign * f.num * (FloatScale \div f.den)} :
        FloatScale % f.den = 0 /\ Abs(u) <= CoordMax

\* a squared length the model covers
OnGrid(s) == s \in 0..MaxSideSq

\* the float of a coordinate given in units of 1/FloatScale
FromUnits(u) ==
    LET g == Gcd(Abs(u), FloatScale)
    IN  Float(IF u < 0 THEN 0 - 1 ELSE 1, Abs(u) \div g, FloatScale \div g)

\* _distance(p, q), squared
DistanceSq(p, q) ==
    LET dx == Coord(p[1]) - Coord(q[1])
        dy == Coord(p[2]) - Coord(q[2])
    IN  dx * dx + dy * dy

\* an angle: the cosine n / sqrt(d) of the exact angle, d > 0, and the side
\* r on which the computed float lies from the exact angle
Angle(n, d, r) == [n |-> n, d |-> d, r |-> r]
ZeroAngle == Angle(1, 1, 0)

\* cos x >= cos y for two exact angles, that is, x is not the larger angle
CosGE(x, y) ==
    IF x.n >= 0 /\ y.n < 0 THEN TRUE
    ELSE IF x.n < 0 /\ y.n >= 0 THEN FALSE
    ELSE IF x.n >= 0 THEN x.n * x.n * y.d >= y.n * y.n * x.d
    ELSE x.n * x.n * y.d <= y.n * y.n * x.d

\* max(-1.0, min(1.0, cos_angle))
ClampCos(a) ==
    IF a.n * a.n > a.d THEN Angle(IF a.n < 0 THEN 0 - 1 ELSE 1, 1, 0) ELSE a

\* the angle between the sides b and c opposite the side a, by the law of
\* cosines on the squared lengths; 0 if b or c is zero
AngleOpposite(a, b, c) ==
    IF b = 0 \/ c = 0 THEN ZeroAngle
    ELSE ClampCos(Angle(b + c - a, 4 * b * c, 0))

SmallerAngle(x, y) == IF CosGE(x, y) THEN x ELSE y

\* the smallest of the three exact angles of the squared sides
ExactMinAngle(ab, bc, ca) ==
    SmallerAngle(SmallerAngle(AngleOpposite(ab, bc, ca),
                              AngleOpposite(bc, ca, ab)),
                 AngleOpposite(ca, ab, bc))

IsSquare(s) == \E q \in 0..s : q * q = s

\* the squared sides close no triangle: the quotient of the law of cosines
\* for the angle opposite a is above 1 in exact arithmetic.  On the grid it
\* exceeds 1 by 1/(4bc) at least, so the computed quotient is above 1.0 too
\* and the clamp makes it 1.0.  (A quotient of exactly 1, collinear corners,
\* is computed as 1.0 or one step to either side of it; that case is not
\* this one, it is the rounding side of the exact angle 0 below.)
ExactCosAboveOne(a, b, c) ==
    b # 0 /\ c # 0 /\ b + c - a > 0 /\ (b + c - a) * (b + c - a) > 4 * b * c

\* the sides r the floating-point arithmetic can leave the computed minimum
\* angle on, for squared sides on the grid:
\*  - a zero side: the code appends the literal 0.0, the minimum is 0.0;
\*  - sides that close no triangle: the computed cosine is above 1.0, the
\*    clamp gives 1.0 and acos(1.0) is 0.0;
\*  - an exact angle of 0 with three sides that are floats (square roots
\*    that come out even): hypot, the products and the quotient are exact,
\*    the cosine is 1.0 and the angle 0.0;
\*  - an exact angle of 0 otherwise: the clamped cosine is 1.0 or just
\*    below it, the angle 0.0 or just above;
\*  - an exact angle of 30, 45 or 60 degrees: either side, or equal;
\*  - any other angle: the comparisons are those of the exact angle.
AngleRoundingsOf(ab, bc, ca, m) ==
    IF ab = 0 \/ bc = 0 \/ ca = 0 THEN {0}
    ELSE IF ExactCosAboveOne(ab, bc, ca) \/ ExactCosAboveOne(bc, ca, ab)
            \/ ExactCosAboveOne(ca, ab, bc)
    THEN {0}
    ELSE IF m.n > 0 /\ m.n * m.n = m.d
    THEN IF IsSquare(ab) /\ IsSquare(bc) /\ IsSquare(ca) THEN {0} ELSE {0, 1}
    ELSE IF m.n > 0 /\ 4 * m.n * m.n \in {m.d, 2 * m.d, 3 * m.d}
    THEN {0 - 1, 0, 1}
    ELSE {0}

\* the outcomes for three squared sides; none outside the grid
AngleRoundings(ab, bc, ca) ==
    CHOOSE rs \in {AngleRoundingsOf(ab, bc, ca, ExactMinAngle(ab, bc, ca))} :
        OnGrid(ab) /\ OnGrid(bc) /\ OnGrid(ca)

WithRounding(m, r) == Angle(m.n, m.d, r)

\* _min_internal_angle(ab, bc, ca) on the squared side lengths, with the
\* side r the arithmetic rounds to (one of AngleRoundings(ab, bc, ca))
MinInternalAngle(ab, bc, ca, r) ==
    CHOOSE a \in {WithRounding(ExactMinAngle(ab, bc, ca), r)} :
        r \in AngleRoundings(ab, bc, ca)

\* twice the area of the triangle
Area2(a, b, c) ==
    Abs((Coord(b[1]) - Coord(a[1])) * (Coord(c[2]) - Coord(a[2]))
        - (Coord(c[1]) - Coord(a[1])) * (Coord(b[2]) - Coord(a[2])))

MetricsOfSides(area2, ab, bc, ca, r) ==
    [area2 |-> area2,
     min_angle |-> MinInternalAngle(ab, bc, ca, r),
     edge_sq |-> <<ab, bc, ca>>]

\* triangle_metrics(tri): area2 is twice the area, edge_sq the squared edge
\* lengths AB, BC, CA; r is the side the angle is rounded to
TriangleMetrics(tri, r) ==
    MetricsOfSides(Area2(tri[1], tri[2], tri[3]),
                   DistanceSq(tri[1], tri[2]), DistanceSq(tri[2], tri[3]),
                   DistanceSq(tri[3], tri[1]), r)

\* the sides the angle of a triangle can be rounded to
RoundingsOf(tri) ==
    AngleRoundings(DistanceSq(tri[1], tri[2]), DistanceSq(tri[2], tri[3]),
                   DistanceSq(tri[3], tri[1]))

\* the squared cosine of a threshold of 0, 30, 45 or 60 degrees, <<num, den>>
CosSqOfDegrees(deg) ==
    CASE deg = 0 -> <<1, 1>>
      [] deg = 30 -> <<3, 4>>
      [] deg = 45 -> <<1, 2>>
      [] deg = 60 -> <<1, 4>>

\* the exact angle is below the threshold / equal to it
BelowDegrees(a, c) == a.n > 0 /\ a.n * a.n * c[2] > c[1] * a.d
EqualDegrees(a, c) == a.n > 0 /\ a.n * a.n * c[2] = c[1] * a.d

AngleBelow(a, c) == BelowDegrees(a, c) \/ (EqualDegrees(a, c) /\ a.r < 0)

AngleAtMostStrict(a, deg) == AngleBelow(a, CosSqOfDegrees(deg))

AngleNotAbove(a, c) == BelowDegrees(a, c) \/ (EqualDegrees(a, c) /\ a.r <= 0)

\* metrics.min_angle_deg <= angle_threshold
AngleAtMost(a, deg) == AngleNotAbove(a, CosSqOfDegrees(deg))

\* ---------------------------------------------------- compare_polylines
\* _triangle_delta(a, b): the largest vertex distance (squared) and the
\* largest single-axis difference over the three vertex pairs
RECURSIVE TriangleDeltaFrom(_, _, _, _, _)
TriangleDeltaFrom(a, b, k, mv, mc) ==
    IF k > Min2(Len(a), Len(b)) THEN [max_vertex_delta_sq |-> mv, max_coord_delta |-> mc]
    ELSE LET dx == Abs(Coord(a[k][1]) - Coord(b[k][1]))
             dy == Abs(Coord(a[k][2]) - Coord(b[k][2]))
         IN  TriangleDeltaFrom(a, b, k + 1,
                 Max2(mv, dx * dx + dy * dy), Max2(mc, Max2(dx, dy)))

TriangleDelta(a, b) == TriangleDeltaFrom(a, b, 1, 0, 0)

WithinToleranceStrict(max_delta_sq, tol) == tol >= 0 /\ max_delta_sq < tol * tol

\* max_delta <= tolerance, for a largest distance on the grid: the rounded
\* length is at most the tolerance exactly when the exact one is
WithinTolerance(max_delta_sq, tol) ==
    CHOOSE b \in {tol >= 0 /\ max_delta_sq <= tol * tol} : OnGrid(max_delta_sq)

\* limit = max_triangles if max_triangles is not None else max(len, len)
Limit(ref, cand, cap) ==
    IF cap # <<>> THEN cap[1]
    ELSE Max2(Len(ref.triangles), Len(cand.triangles))

\* range(min(limit, len(reference.triangles), len(candidate.triangles)))
CompareRange(ref, cand, cap) ==
    Max2(0, Min2(Limit(ref, cand, cap),
                 Min2(Len(ref.triangles), Len(cand.triangles))))

TriangleDiff(i, d, ma, mb, ta, tb) ==
    [triangle_index |-> i,
     max_vertex_delta_sq |-> d.max_vertex_delta_sq,
     max_coord_delta |-> d.max_coord_delta,
     area2_a |-> ma.area2, area2_b |-> mb.area2,
     min_angle_a |-> ma.min_angle, min_angle_b |-> mb.min_angle,
     vertices_a |-> ta, vertices_b |-> tb]

CompareLooping == cpc = "loop" /\ idx < CompareRange(reference, candidate, max_triangles)

\* the triangle at a 0-based index; a read past the end is an IndexError
ReadTriangle(poly, i) == poly.triangles[i + 1]

\* if max_delta <= tolerance: continue
SkipTriangle ==
    /\ CompareLooping
    /\ LET d == TriangleDelta(ReadTriangle(reference, idx), ReadTriangle(candidate, idx))
       IN  WithinTolerance(d.max_vertex_delta_sq, tolerance)
    /\ idx' = idx + 1
    /\ UNCHANGED <<reference, candidate, tolerance, max_triangles, diffs, cpc,
                   cmp_rounding,
                   pvars, tvars, svars>>

\* diffs.append(TriangleDiff(...))
ReportTriangle ==
    /\ CompareLooping
    /\ LET ta == ReadTriangle(reference, idx)
           tb == ReadTriangle(candidate, idx)
           d == TriangleDelta(ta, tb)
       IN  /\ ~WithinTolerance(d.max_vertex_delta_sq, tolerance)
           /\ diffs' = Append(diffs,
                  TriangleDiff(idx, d, TriangleMetrics(ta, cmp_rounding[ta]),
                               TriangleMetrics(tb, cmp_rounding[tb]), ta, tb))
    /\ idx' = idx + 1
    /\ UNCHANGED <<reference, candidate, tolerance, max_triangles, cpc,
                   cmp_rounding,
                   pvars, tvars, svars>>

\* return diffs
CompareReturn ==
    /\ cpc = "loop"
    /\ ~CompareLooping
    /\ cpc' = "done"
    /\ UNCHANGED <<reference, candidate, tolerance, max_triangles, idx, diffs,
                   cmp_rounding,
                   pvars, tvars, svars>>

\* ---- the records compare_polylines and the scan are run on
\* the point with the given coordinates in units of 1/FloatScale
PointAt(ux, uy) == <<FromUnits(ux), FromUnits(uy)>>
TriRight == <<PointAt(0, 0), PointAt(2, 0), PointAt(0, 2)>>  \* (0,0) (1,0) (0,1)
TriMoved == <<PointAt(0, 0), PointAt(2, 0), PointAt(0, 3)>>  \* (0,0) (1,0) (0,1.5)
TriFlat == <<PointAt(0, 0), PointAt(0, 0), PointAt(3, 4)>>   \* a zero-length edge
TriThin == <<PointAt(0, 0), PointAt(4, 0), PointAt(4, 1)>>   \* (0,0) (2,0) (2,0.5)
TriLine == <<PointAt(0 - 2, 0 - 2), PointAt(0, 1), PointAt(2, 4)>>  \* collinear (-1,-1) (0,0.5) (1,2)
TriPool == {TriRight, TriMoved, TriFlat}

\* the ways the arithmetic can round the angles of a pool of triangles
RoundingChoices(pool) ==
    {f \in [pool -> {0 - 1, 0, 1}] : \A t \in pool : f[t] \in RoundingsOf(t)}
TriSeqs == UNION {[1..n -> TriPool] : n \in 0..MaxTris}
LayerA == <<65>>  \* "A"
Tolerances == {0, 1, 5}
Caps == {<<>>} \cup {<<n>> : n \in (0 - 1)..MaxTris}

InitCompare ==
    /\ \E ta \in TriSeqs, tb \in TriSeqs :
          /\ reference = PolylineDump(0, 3, Float(1, 1, 1), LayerA, ta)
          /\ candidate = PolylineDump(0, 3, Float(1, 1, 1), LayerA, tb)
    /\ tolerance \in Tolerances
    /\ max_triangles \in Caps
    /\ idx = 0
    /\ diffs = <<>>
    /\ cpc = "loop"
    /\ cmp_rounding \in RoundingChoices(TriPool)
    /\ IdleParse /\ IdleTriangleLine /\ IdleSharp

NextCompare ==
    \/ SkipTriangle
    \/ ReportTriangle
    \/ CompareReturn

SpecCompare == InitCompare /\ [][NextCompare]_vars


\* the squared distance between the k-th vertices of two triangles
VertexDeltaSq(ta, tb, k) ==
    (Coord(ta[k][1]) - Coord(tb[k][1])) * (Coord(ta[k][1]) - Coord(tb[k][1])) +
    (Coord(ta[k][2]) - Coord(tb[k][2])) * (Coord(ta[k][2]) - Coord(tb[k][2]))

\* the positions compare_polylines is specified to look at
ComparedPositions ==
    LET lens == {Len(reference.triangles), Len(candidate.triangles)}
        caps == IF max_triangles = <<>> THEN lens ELSE lens \cup {max_triangles[1]}
    IN  {i \in 0..MaxTris : \A c \in caps : i < c}

\* position i differs by more than the tolerance at some vertex: the exact
\* distance of a vertex pair is above the tolerance, which on the grid is
\* so exactly when the rounded distance the program computes is
Exceeds(i) ==
    \E k \in 1..3 :
        VertexDeltaSq(reference.triangles[i + 1], candidate.triangles[i + 1], k)
            > tolerance * tolerance

\* C9: compare_polylines returns, in increasing triangle_index order, exactly
\* one TriangleDiff for each position below min(cap, both lengths) whose
\* largest vertex distance is strictly greater than the tolerance, and
\* nothing else; it reads no triangle at or past the end of either record,
\* reports nothing for the extra triangles of the longer record and nothing
\* for a pair of equal triangles.
C9_DiffsExactlyAboveTolerance ==
    /\ CompareLooping =>
          idx < Len(reference.triangles) /\ idx < Len(candidate.triangles)
    /\ cpc = "done" =>
          /\ {diffs[j].triangle_index : j \in 1..Len(diffs)} =
                 {i \in ComparedPositions : Exceeds(i)}
          /\ \A j \in 1..(Len(diffs) - 1) :
                 diffs[j].triangle_index < diffs[j + 1].triangle_index
          /\ \A j \in 1..Len(diffs) :
                 LET i == diffs[j].triangle_index IN
                 /\ diffs[j].max_vertex_delta_sq > tolerance * tolerance
                 /\ diffs[j].vertices_a = reference.triangles[i + 1]
                 /\ diffs[j].vertices_b = candidate.triangles[i + 1]
                 /\ diffs[j].vertices_a # diffs[j].vertices_b

C9_Witness ==
    /\ cpc = "done"
    /\ Len(reference.triangles) > Len(candidate.triangles)
    /\ max_triangles = <<>>
    /\ Len(diffs) = 1
    /\ idx = Len(candidate.triangles)
    /\ tolerance > 0

\* ---------------------------------------------- collect_sharp_triangles
IsSharpStrict(m, thr) == AngleAtMostStrict(m.min_angle, thr)

\* if metrics.min_angle_deg <= angle_threshold
IsSharp(m, thr) == AngleAtMost(m.min_angle, thr)

ScanInPoly ==
    /\ spc = "loop"
    /\ sh_p <= Len(sh_polylines)
    /\ sh_t < Len(sh_polylines[sh_p].triangles)

\* results.append((poly.index, idx, metrics))
SharpTriangle ==
    /\ ScanInPoly
    /\ LET poly == sh_polylines[sh_p]
           tri == poly.triangles[sh_t + 1]
           metrics == TriangleMetrics(tri, sh_rounding[tri])
       IN  /\ IsSharp(metrics, angle_threshold)
           /\ results' = Append(results, <<poly.index, sh_t, metrics>>)
    /\ sh_t' = sh_t + 1
    /\ UNCHANGED <<sh_polylines, angle_threshold, sh_p, spc, sh_rounding,
                   pvars, tvars, cvars>>

\* the triangle is not sharp: nothing is appended
BluntTriangle ==
    /\ ScanInPoly
    /\ LET tri == sh_polylines[sh_p].triangles[sh_t + 1]
       IN  ~IsSharp(TriangleMetrics(tri, sh_rounding[tri]), angle_threshold)
    /\ sh_t' = sh_t + 1
    /\ UNCHANGED <<sh_polylines, angle_threshold, sh_p, results, spc, sh_rounding,
                   pvars, tvars, cvars>>

\* the inner loop is exhausted: for poly in polylines moves on
NextPolyline ==
    /\ spc = "loop"
    /\ sh_p <= Len(sh_polylines)
    /\ sh_t >= Len(sh_polylines[sh_p].triangles)
    /\ sh_p' = sh_p + 1
    /\ sh_t' = 0
    /\ UNCHANGED <<sh_polylines, angle_threshold, results, spc, sh_rounding,
                   pvars, tvars, cvars>>

\* return results
ScanReturn ==
    /\ spc = "loop"
    /\ sh_p > Len(sh_polylines)
    /\ spc' = "done"
    /\ UNCHANGED <<sh_polylines, angle_threshold, sh_p, sh_t, results, sh_rounding,
                   pvars, tvars, cvars>>

\* the driver hands over a slice of a parsed dump: the index fields are
\* consecutive but need not start at 0
Offsets == {0, 1}
Thresholds == {0, 30}
ScanPool == {TriFlat, TriThin, TriLine}
ScanTriSeqs == UNION {[1..n -> ScanPool] : n \in 0..MaxTris}

\* the records of a scan: at most MaxPolys of them, MaxTris triangles in each
\* and MaxTris + 1 in all
RECURSIVE TotalLen(_)
TotalLen(ts) == IF ts = <<>> THEN 0 ELSE Len(Head(ts)) + TotalLen(Tail(ts))

ScanInputs ==
    UNION {{ts \in [1..n -> ScanTriSeqs] : TotalLen(ts) <= MaxTris + 1} :
           n \in 0..MaxPolys}

InitSharp ==
    /\ \E ts \in ScanInputs, off \in Offsets :
          sh_polylines =
              [k \in 1..Len(ts) |->
                  PolylineDump(off + k - 1, 3, Float(1, 1, 1), LayerA, ts[k])]
    /\ angle_threshold \in Thresholds
    /\ sh_p = 1
    /\ sh_t = 0
    /\ results = <<>>
    /\ spc = "loop"
    /\ sh_rounding \in RoundingChoices(ScanPool)
    /\ IdleParse /\ IdleTriangleLine /\ IdleCompare

NextSharp ==
    \/ SharpTriangle
    \/ BluntTriangle
    \/ NextPolyline
    \/ ScanReturn

SpecSharp == InitSharp /\ [][NextSharp]_vars

\* ---- the exact geometry of a triangle, from its coordinates
Edge(p, q) == <<Coord(q[1]) - Coord(p[1]), Coord(q[2]) - Coord(p[2])>>
Dot(u, v) == u[1] * v[1] + u[2] * v[2]
Cross(u, v) == u[1] * v[2] - u[2] * v[1]

\* the squared tangent of 0, 30, 45 and 60 degrees, <<num, den>>
TanSqOfDegrees(deg) ==
    CASE deg = 0 -> <<0, 1>>
      [] deg = 30 -> <<1, 3>>
      [] deg = 45 -> <<1, 1>>
      [] deg = 60 -> <<3, 1>>

\* the exact angle between the edges u and v of a corner is at most t, or
\* below t; at a corner with an edge of length zero the angle is 0
EdgesAtMost(u, v, t) ==
    \/ u = <<0, 0>>
    \/ v = <<0, 0>>
    \/ Dot(u, v) > 0 /\ Cross(u, v) * Cross(u, v) * t[2] <= t[1] * Dot(u, v) * Dot(u, v)
EdgesBelow(u, v, t) ==
    \/ (u = <<0, 0>> \/ v = <<0, 0>>) /\ t[1] > 0
    \/ Dot(u, v) > 0 /\ Cross(u, v) * Cross(u, v) * t[2] < t[1] * Dot(u, v) * Dot(u, v)

\* the exact minimum internal angle of a triangle is at most deg degrees
ExactMinAtMost(tri, deg) ==
    \E k \in 1..3 :
        EdgesAtMost(Edge(tri[k], tri[(k % 3) + 1]),
                    Edge(tri[k], tri[((k + 1) % 3) + 1]), TanSqOfDegrees(deg))
\* the exact minimum internal angle of a triangle is below deg degrees
ExactMinBelow(tri, deg) ==
    \E k \in 1..3 :
        EdgesBelow(Edge(tri[k], tri[(k % 3) + 1]),
                   Edge(tri[k], tri[((k + 1) % 3) + 1]), TanSqOfDegrees(deg))
HasZeroEdge(tri) ==
    \E k \in 1..3 : Edge(tri[k], tri[(k % 3) + 1]) = <<0, 0>>

\* the positions (record position, triangle position) of the scanned
\* triangles, and the triangle at one
Positions ==
    {e \in (1..Len(sh_polylines)) \X (0..(MaxTris - 1)) :
        e[2] < Len(sh_polylines[e[1]].triangles)}
TriAt(e) == sh_polylines[e[1]].triangles[e[2] + 1]
Before(e, f) == e[1] < f[1] \/ (e[1] = f[1] /\ e[2] < f[2])
RankIn(S, e) == Cardinality({f \in S : Before(f, e)}) + 1

\* the entries are those of the positions S, in polyline order and then
\* triangle order, each with the index field of its record
ReportsExactly(S) ==
    /\ Len(results) = Cardinality(S)
    /\ \A e \in S :
          /\ results[RankIn(S, e)][1] = sh_polylines[e[1]].index
          /\ results[RankIn(S, e)][2] = e[2]

\* the triangles whose exact minimum angle is at most the threshold
ExactSharpOnes ==
    {e \in Positions : ExactMinAtMost(TriAt(e), angle_threshold)}

\* C10 as stated: the scan returns one entry for every triangle whose
\* minimum internal angle is less than or equal to the threshold and for no
\* other, in polyline order and then triangle order; a triangle whose
\* minimum angle equals the threshold is included.
C10_ExactAngleAtMostThreshold ==
    spc = "done" => ReportsExactly(ExactSharpOnes)

\* the triangles whose computed minimum angle is at most the threshold: the
\* exact angle is below it, or equals it and the arithmetic did not round
\* the computed angle to above it
ComputedSharpOnes ==
    {e \in Positions :
        \/ ExactMinBelow(TriAt(e), angle_threshold)
        \/ /\ ExactMinAtMost(TriAt(e), angle_threshold)
           /\ sh_rounding[TriAt(e)] <= 0}

\* C10 as amended: the scan returns one entry (polyline index, triangle
\* index, metrics) for every triangle whose computed min_angle_deg is less
\* than or equal to the threshold and for no other, in polyline order and
\* then triangle order.  The computed angle is the exact one up to rounding:
\* a triangle whose exact minimum angle equals the threshold is included
\* only if the computed angle is not rounded to above it, and a triangle
\* with a zero-length edge, whose angle is computed as exactly 0, is always
\* included at a threshold of 0 or more.
C10_ComputedAngleAtMostThreshold ==
    spc = "done" =>
        /\ ReportsExactly(ComputedSharpOnes)
        /\ \A e \in ComputedSharpOnes :
              results[RankIn(ComputedSharpOnes, e)][3] =
                  TriangleMetrics(TriAt(e), sh_rounding[TriAt(e)])
        /\ \A e \in Positions :
              HasZeroEdge(TriAt(e)) =>
                  \E j \in 1..Len(results) :
                      /\ results[j][1] = sh_polylines[e[1]].index
                      /\ results[j][2] = e[2]

\* a scan at threshold 0 that reports a triangle with a zero-length edge and
\* passes over a collinear triangle whose computed angle is above 0
C10_Witness ==
    /\ spc = "done"
    /\ angle_threshold = 0
    /\ Len(results) >= 1
    /\ \E e \in Positions, f \in Positions :
          /\ HasZeroEdge(TriAt(e))
          /\ ~HasZeroEdge(TriAt(f))
          /\ ExactMinAtMost(TriAt(f), 0)
          /\ sh_rounding[TriAt(f)] = 1
          /\ Len(results) < Cardinality(Positions)

====
